---- MODULE Spec2Model ----
(***************************************************************************)
(* Model of pyfr/interfaces.py: the view/normal assemblers, the internal   *)
(* and MPI interface sets, their kernel getters, and the pack / send_pack  *)
(* / recv_pack / unpack exchange driven through those getters.             *)
(*                                                                         *)
(* The backend (be.view, be.mpi_view, be.mpi_matrix_for_view,              *)
(* be.const_matrix, be.kernel and the execution of the kernels), the       *)
(* element classes (the per-type accessors) and the configuration object   *)
(* are not part of interfaces.py; they are modelled from the design        *)
(* document and marked so in the model map.                                *)
(***************************************************************************)
EXTENDS Integers, Sequences, FiniteSets, TLC

VARIABLES
    last,      \* the last operation performed and its outcome
    cfg,       \* the configuration: text of constants.gamma
    objs,      \* the interface sets constructed so far (a sequence)
    nalloc,    \* number of mutable backend buffers allocated so far
    memo,      \* history: one earlier getter call, remembered for comparison
    pc,        \* exchange: per set, the next kernel of its round
    rnd,       \* exchange: per set, the current round
    packbuf,   \* exchange: buffer id -> contents of an mpi view's send buffer
    hbuf,      \* exchange: buffer id -> host side of an mpi matrix
    dbuf,      \* exchange: buffer id -> device side of an mpi matrix
    chan,      \* exchange: <<src, dst, tag>> -> messages in flight (FIFO)
    log,       \* exchange: per set, the kernels run in the current round
    used       \* exchange: per set, what the last rsolve kernel read

vars == <<last, cfg, objs, nalloc, memo, pc, rnd, packbuf, hbuf, dbuf, chan,
          log, used>>

(***************************************************************************)
(* Bounds                                                                  *)
(***************************************************************************)
MaxSides == 2     \* longest side list handed to an assembler / constructor
MaxObjs == 1      \* interface sets constructed in the kernel-getter runs
MaxRound == 2     \* exchange rounds per interface set

(***************************************************************************)
(* Results of a call: a value or a raised exception                        *)
(***************************************************************************)
Ok(v) == [ok |-> TRUE, err |-> "", val |-> v]
Err(e) == [ok |-> FALSE, err |-> e, val |-> <<>>]

\* The design document's names for the exceptions Python raises here.
UnsupportedElementType == "AttributeError"

(***************************************************************************)
(* Element classes (external): types, faces, accessors                     *)
(***************************************************************************)
ElemTypes == {"hex", "pri"}

\* Number of flux points on a face: a prism has a triangular face 0 with
\* fewer points than its quadrilateral face 1; every hex face is a quad.
NFpts(type, face) == IF type = "pri" /\ face = 0 THEN 1 ELSE 2

\* The sides <<type, eidx, face, rtag>> the runs draw side lists from.
Sides == { <<"hex", 0, 0, 0>>, <<"pri", 0, 1, 1>>,
           <<"pri", 0, 0, 0>>, <<"pri", 1, 0, 1>> }

\* The side that faces a side across its interface in the mesh: the hex
\* face meets the prism's quad face, the two triangular faces meet.
Partner(s) ==
    CASE s = <<"hex", 0, 0, 0>> -> <<"pri", 0, 1, 1>>
      [] s = <<"pri", 0, 1, 1>> -> <<"hex", 0, 0, 0>>
      [] s = <<"pri", 0, 0, 0>> -> <<"pri", 1, 0, 1>>
      [] s = <<"pri", 1, 0, 1>> -> <<"pri", 0, 0, 0>>

Partners(sides) == [i \in 1..Len(sides) |-> Partner(sides[i])]

RECURSIVE SeqsUpTo(_, _)
SeqsUpTo(S, n) ==
    IF n = 0 THEN { <<>> }
    ELSE LET shorter == SeqsUpTo(S, n - 1)
         IN  shorter \cup { Append(q, x) : q \in shorter, x \in S }

SideLists == SeqsUpTo(Sides, MaxSides)

AllAttrs == {"get_scal_fpts0_for_inter", "get_scal_fpts1_for_inter",
             "get_mag_pnorms_for_inter", "get_norm_pnorms_for_inter"}

\* An element class instance: its dimensions and the accessors it has.
Element(attrs) == [ndims |-> 2, nvars |-> 4, attrs |-> attrs]

\* Element maps: any non-empty set of types, each either with every accessor
\* or without the auxiliary-state accessor get_scal_fpts1_for_inter.
Elemaps ==
    UNION { [D -> { Element(AllAttrs),
                    Element(AllAttrs \ {"get_scal_fpts1_for_inter"}) }]
            : D \in (SUBSET ElemTypes) \ { {} } }

FullElemap == [t \in ElemTypes |-> Element(AllAttrs)]

\* The rotation tag fixes the order in which a face's points are listed.
PtAt(n, rtag, j) == IF rtag = 0 THEN j ELSE n + 1 - j

\* ele.get_scal_fpts{0,1}_for_inter(eidx, face, rtag): three aligned
\* fragments, one entry per flux point of the face.
ScalFptsForInter(mat, type, eidx, face, rtag) ==
    LET n == NFpts(type, face)
    IN  [k \in 1..3 |->
            [j \in 1..n |->
                [mat |-> mat, frag |-> k - 1, type |-> type, eidx |-> eidx,
                 face |-> face, pt |-> PtAt(n, rtag, j)]]]

\* ele.get_mag_pnorms_for_inter(eidx, fidx, rtag): one magnitude per point.
MagPnormsForInter(type, eidx, fidx, rtag) ==
    LET n == NFpts(type, fidx)
    IN  [j \in 1..n |->
            [mat |-> "mag_pnorm", frag |-> 0, type |-> type, eidx |-> eidx,
             face |-> fidx, pt |-> PtAt(n, rtag, j)]]

\* ele.get_norm_pnorms_for_inter(eidx, fidx, rtag): one unit normal per point.
NormPnormsForInter(type, eidx, fidx, rtag) ==
    LET n == NFpts(type, fidx)
    IN  [j \in 1..n |->
            [mat |-> "norm_pnorm", frag |-> 0, type |-> type, eidx |-> eidx,
             face |-> fidx, pt |-> PtAt(n, rtag, j)]]

(***************************************************************************)
(* numpy helpers                                                           *)
(***************************************************************************)
\* scal[i::step] for a 0-based start i: entries i, i+step, i+2*step, ...
RECURSIVE Stride(_, _, _)
Stride(scal, i, step) ==
    IF i + 1 > Len(scal) THEN <<>>
    ELSE <<scal[i + 1]>> \o Stride(scal, i + step, step)

RECURSIVE Flatten(_)
Flatten(arrs) ==
    IF arrs = <<>> THEN <<>> ELSE Head(arrs) \o Flatten(Tail(arrs))

\* np.concatenate(arrs): needs at least one array.
np_concatenate(arrs) ==
    IF Len(arrs) = 0 THEN Err("ValueError") ELSE Ok(Flatten(arrs))

\* a[np.newaxis, ...]: a leading axis of length one.
np_newaxis(a) == <<a>>

(***************************************************************************)
(* get_view_mats, get_mag_pnorm_mat, get_norm_pnorm_mat                    *)
(***************************************************************************)
\* scal += viewmatmap[type](eidx, face, rtag), side by side.
RECURSIVE ScalLoop(_, _, _, _)
ScalLoop(interside, i, viewmatmap, scal) ==
    IF i > Len(interside) THEN Ok(scal)
    ELSE LET s == interside[i]
         IN  IF s[1] \notin DOMAIN viewmatmap THEN Err("KeyError")
             ELSE ScalLoop(interside, i + 1, viewmatmap,
                           scal \o ScalFptsForInter(viewmatmap[s[1]], s[1],
                                                    s[2], s[3], s[4]))

\* Faulty variant of ScalV: the slices are taken with step 2 instead of 3.
ScalV_Step2(scal) ==
    LET cat == [i \in 1..3 |-> np_concatenate(Stride(scal, i - 1, 2))]
    IN  IF \E i \in 1..3 : ~cat[i].ok THEN Err("ValueError")
        ELSE Ok([i \in 1..3 |-> np_newaxis(cat[i].val)])

\* [np.concatenate(scal[i::3])[np.newaxis,...] for i in xrange(3)]
ScalV(scal) ==
    LET cat == [i \in 1..3 |-> np_concatenate(Stride(scal, i - 1, 3))]
    IN  IF \E i \in 1..3 : ~cat[i].ok THEN Err("ValueError")
        ELSE Ok([i \in 1..3 |-> np_newaxis(cat[i].val)])

\* Faulty variant of get_view_mats: the accessor is looked up only for the element
\* types that a side refers to.
get_view_mats_Lazy(interside, mat, elemap) ==
    LET refd == { interside[i][1] : i \in 1..Len(interside) }
    IN  IF \E t \in DOMAIN elemap \cap refd : mat \notin elemap[t].attrs
        THEN Err("AttributeError")
        ELSE LET viewmatmap == [t \in DOMAIN elemap |-> mat]
                 scal == ScalLoop(interside, 1, viewmatmap, <<>>)
             IN  IF ~scal.ok THEN scal ELSE ScalV(scal.val)

get_view_mats(interside, mat, elemap) ==
    IF \E t \in DOMAIN elemap : mat \notin elemap[t].attrs
    THEN Err("AttributeError")
    ELSE LET viewmatmap == [t \in DOMAIN elemap |-> mat]
             scal == ScalLoop(interside, 1, viewmatmap, <<>>)
         IN  IF ~scal.ok THEN scal ELSE ScalV(scal.val)

\* [elemap[type].<getter>(eidx, fidx, rtag) for ... in interside]
RECURSIVE PnormLoop(_, _, _, _)
PnormLoop(interside, i, elemap, getter) ==
    IF i > Len(interside) THEN Ok(<<>>)
    ELSE LET s == interside[i]
         IN  IF s[1] \notin DOMAIN elemap THEN Err("KeyError")
             ELSE IF getter \notin elemap[s[1]].attrs THEN Err("AttributeError")
             ELSE LET rest == PnormLoop(interside, i + 1, elemap, getter)
                      here == IF getter = "get_mag_pnorms_for_inter"
                              THEN MagPnormsForInter(s[1], s[2], s[3], s[4])
                              ELSE NormPnormsForInter(s[1], s[2], s[3], s[4])
                  IN  IF ~rest.ok THEN rest ELSE Ok(<<here>> \o rest.val)

Reverse(q) == [i \in 1..Len(q) |-> q[Len(q) + 1 - i]]

\* Faulty variant of get_mag_pnorm_mat: the sides are visited last to first.
get_mag_pnorm_mat_Reversed(interside, elemap) ==
    LET mag_pnorms == PnormLoop(Reverse(interside), 1, elemap,
                                "get_mag_pnorms_for_inter")
    IN  IF ~mag_pnorms.ok THEN mag_pnorms
        ELSE LET cat == np_concatenate(mag_pnorms.val)
             IN  IF ~cat.ok THEN cat ELSE Ok(np_newaxis(cat.val))

get_mag_pnorm_mat(interside, elemap) ==
    LET mag_pnorms == PnormLoop(interside, 1, elemap,
                                "get_mag_pnorms_for_inter")
    IN  IF ~mag_pnorms.ok THEN mag_pnorms
        ELSE LET cat == np_concatenate(mag_pnorms.val)
             IN  IF ~cat.ok THEN cat ELSE Ok(np_newaxis(cat.val))

get_norm_pnorm_mat(interside, elemap) ==
    LET norm_pnorms == PnormLoop(interside, 1, elemap,
                                 "get_norm_pnorms_for_inter")
    IN  IF ~norm_pnorms.ok THEN norm_pnorms
        ELSE LET cat == np_concatenate(norm_pnorms.val)
             IN  IF ~cat.ok THEN cat ELSE Ok(np_newaxis(cat.val))

(***************************************************************************)
(* Backend (external): allocation of views, matrices, kernel descriptors   *)
(***************************************************************************)
NoData == <<>>

\* be.view(m0, m1, m2, vlen=, tags=): an immutable indirect view.
be_view(mats, vlen, tags) ==
    [kind |-> "view", id |-> 0, mats |-> mats, data |-> NoData,
     vlen |-> vlen, tags |-> tags]

\* be.mpi_view(m0, m1, m2, vlen=, tags=): a view that owns send buffer `id`.
be_mpi_view(id, mats, vlen, tags) ==
    [kind |-> "mpi_view", id |-> id, mats |-> mats, data |-> NoData,
     vlen |-> vlen, tags |-> tags]

\* Number of points a view addresses along the flat axis.
ViewLen(view) == Len(view.mats[1][1])

Zeros(n) == [p \in 1..n |-> 0]

\* be.mpi_matrix_for_view(view): a dense receive buffer `id`, shaped as view.
be_mpi_matrix_for_view(id, view) ==
    [kind |-> "mpi_matrix", id |-> id, mats |-> <<>>,
     data |-> Zeros(ViewLen(view)),
     vlen |-> view.vlen, tags |-> view.tags]

\* be.const_matrix(arr, tags=): an immutable dense array.
be_const_matrix(arr, tags) ==
    [kind |-> "const_matrix", id |-> 0, mats |-> <<>>, data |-> arr,
     vlen |-> 0, tags |-> tags]

\* be.kernel(name, ...): the descriptor of a schedulable kernel.
be_kernel(name, dims, operands, scalars) ==
    [name |-> name, dims |-> dims, operands |-> operands,
     scalars |-> scalars]

(***************************************************************************)
(* Configuration (external): option texts and their float values           *)
(***************************************************************************)
GammaTexts == {"1.4", "1.40", "1.67"}

\* float(text), in hundredths: two texts may denote the same number.
ParseFloat(text) ==
    CASE text = "1.4" -> 140
      [] text = "1.40" -> 140
      [] text = "1.67" -> 167

cfg_getfloat(c) == ParseFloat(c)
cfg_get(c) == c

(***************************************************************************)
(* Classes, the abstract-method check, and the constructors                *)
(***************************************************************************)
InternalClasses == {"EulerInternalInterfaces", "NavierStokesInternalInterfaces"}
MPIClasses == {"EulerMPIInterfaces", "NavierStokesMPIInterfaces"}
NSClasses == {"NavierStokesInternalInterfaces", "NavierStokesMPIInterfaces"}
Classes == InternalClasses \cup MPIClasses

\* The method resolution order of each class, most derived first.
MRO(cls) ==
    CASE cls = "EulerInternalInterfaces" ->
            <<"EulerInternalInterfaces", "BaseInternalInterfaces",
              "BaseInterfaces">>
      [] cls = "NavierStokesInternalInterfaces" ->
            <<"NavierStokesInternalInterfaces", "BaseInternalInterfaces",
              "BaseInterfaces">>
      [] cls = "EulerMPIInterfaces" ->
            <<"EulerMPIInterfaces", "BaseMPIInterfaces", "BaseInterfaces">>
      [] cls = "NavierStokesMPIInterfaces" ->
            <<"NavierStokesMPIInterfaces", "BaseMPIInterfaces",
              "BaseInterfaces">>

PackGetters == {"get_scal_fpts0_pack_kern", "get_scal_fpts0_send_pack_kern",
                "get_scal_fpts0_recv_pack_kern", "get_scal_fpts0_unpack_kern"}
Getters == PackGetters \cup {"get_rsolve_kern", "get_conu_fpts_kern"}

\* The getters each class body defines with an implementation.
ConcreteMethods(c) ==
    CASE c = "BaseMPIInterfaces" -> PackGetters
      [] c = "EulerInternalInterfaces" -> {"get_rsolve_kern"}
      [] c = "EulerMPIInterfaces" -> {"get_rsolve_kern"}
      [] c = "NavierStokesInternalInterfaces" -> {"get_conu_fpts_kern"}
      [] c = "NavierStokesMPIInterfaces" -> {"get_conu_fpts_kern"}
      [] OTHER -> {}

\* The methods a class body declares with @abstractmethod.
DeclaredAbstract(c) ==
    IF c = "BaseInterfaces" THEN {"get_rsolve_kern"} ELSE {}

\* ABCMeta: the abstract methods no class of the MRO implements.
AbstractMethods(cls) ==
    LET mro == MRO(cls)
    IN  { m \in UNION { DeclaredAbstract(mro[i]) : i \in 1..Len(mro) } :
            \A i \in 1..Len(mro) : m \notin ConcreteMethods(mro[i]) }

\* The class of the MRO whose implementation a call of getter g runs.
Resolve(cls, g) ==
    LET mro == MRO(cls)
        hits == { i \in 1..Len(mro) :
                    g \in ConcreteMethods(mro[i]) \cup DeclaredAbstract(mro[i]) }
    IN  IF hits = {} THEN "none"
        ELSE mro[CHOOSE i \in hits : \A j \in hits : i <= j]

NoPad == {"nopad"}

\* BaseInterfaces.__init__: the dimensions of any one element type.
BaseInterfaces_init(cls, elemap) ==
    LET e == elemap[CHOOSE t \in DOMAIN elemap : TRUE]
    IN  [cls |-> cls,
         n |-> [a \in {"ndims", "nvars"} |->
                   IF a = "ndims" THEN e.ndims ELSE e.nvars],
         f |-> <<>>]

\* self.<name> = value, for an attribute holding a backend object.
SetAttr(self, name, value) ==
    [self EXCEPT !.f = [a \in DOMAIN self.f \cup {name} |->
                           IF a = name THEN value ELSE self.f[a]]]

\* self.<name> = value, for a numeric attribute.
SetNum(self, name, value) ==
    [self EXCEPT !.n = [a \in DOMAIN self.n \cup {name} |->
                           IF a = name THEN value ELSE self.n[a]]]

InternalAttrs == {"_scal0_lhs", "_scal0_rhs", "_mag_pnorm_lhs",
                  "_mag_pnorm_rhs", "_norm_pnorm_lhs"}

\* BaseInternalInterfaces.__init__
BaseInternalInterfaces_init(cls, lhs, rhs, elemap) ==
    LET self0 == BaseInterfaces_init(cls, elemap)
        scal0_lhs == get_view_mats(lhs, "get_scal_fpts0_for_inter", elemap)
        scal0_rhs == get_view_mats(rhs, "get_scal_fpts0_for_inter", elemap)
        mag_pnorm_lhs == get_mag_pnorm_mat(lhs, elemap)
        mag_pnorm_rhs == get_mag_pnorm_mat(rhs, elemap)
        norm_pnorm_lhs == get_norm_pnorm_mat(lhs, elemap)
    IN  IF ~scal0_lhs.ok THEN scal0_lhs
        ELSE IF ~scal0_rhs.ok THEN scal0_rhs
        ELSE IF ~mag_pnorm_lhs.ok THEN mag_pnorm_lhs
        ELSE IF ~mag_pnorm_rhs.ok THEN mag_pnorm_rhs
        ELSE IF ~norm_pnorm_lhs.ok THEN norm_pnorm_lhs
        ELSE Ok([self0 EXCEPT !.f = [a \in InternalAttrs |->
                CASE a = "_scal0_lhs" ->
                        be_view(scal0_lhs.val, self0.n["nvars"], NoPad)
                  [] a = "_scal0_rhs" ->
                        be_view(scal0_rhs.val, self0.n["nvars"], NoPad)
                  [] a = "_mag_pnorm_lhs" ->
                        be_const_matrix(mag_pnorm_lhs.val, NoPad)
                  [] a = "_mag_pnorm_rhs" ->
                        be_const_matrix(mag_pnorm_rhs.val, NoPad)
                  [] a = "_norm_pnorm_lhs" ->
                        be_const_matrix(norm_pnorm_lhs.val, NoPad)]])

MPIAttrs == {"_scal0_lhs", "_scal0_rhs", "_mag_pnorm_lhs", "_norm_pnorm_lhs"}

\* Faulty variant of BaseMPIInterfaces.__init__: the receive matrix is one buffer
\* allocated once for the class and stored by every instance.
BaseMPIInterfaces_init_SharedRhs(cls, n, lhs, rhsrank, elemap) ==
    LET e == elemap[CHOOSE t \in DOMAIN elemap : TRUE]
        scal0_lhs == get_view_mats(lhs, "get_scal_fpts0_for_inter", elemap)
        mag_pnorm_lhs == get_mag_pnorm_mat(lhs, elemap)
        norm_pnorm_lhs == get_norm_pnorm_mat(lhs, elemap)
    IN  IF ~scal0_lhs.ok THEN scal0_lhs
        ELSE IF ~mag_pnorm_lhs.ok THEN mag_pnorm_lhs
        ELSE IF ~norm_pnorm_lhs.ok THEN norm_pnorm_lhs
        ELSE Ok([cls |-> cls,
                 n |-> [a \in {"ndims", "nvars", "_rhsrank"} |->
                          CASE a = "ndims" -> e.ndims
                            [] a = "nvars" -> e.nvars
                            [] a = "_rhsrank" -> rhsrank],
                 f |-> [a \in MPIAttrs |->
                    CASE a = "_scal0_lhs" ->
                            be_mpi_view(n + 1, scal0_lhs.val, e.nvars, NoPad)
                      [] a = "_scal0_rhs" ->
                            be_mpi_matrix_for_view(100,
                                be_mpi_view(n + 1, scal0_lhs.val, e.nvars,
                                            NoPad))
                      [] a = "_mag_pnorm_lhs" ->
                            be_const_matrix(mag_pnorm_lhs.val, NoPad)
                      [] a = "_norm_pnorm_lhs" ->
                            be_const_matrix(norm_pnorm_lhs.val, NoPad)]])

\* BaseMPIInterfaces.__init__; n is the number of buffers allocated before.
\* be.mpi_view and be.mpi_matrix_for_view each allocate a fresh buffer.
BaseMPIInterfaces_init(cls, n, lhs, rhsrank, elemap) ==
    LET self0 == SetNum(BaseInterfaces_init(cls, elemap), "_rhsrank", rhsrank)
        scal0_lhs == get_view_mats(lhs, "get_scal_fpts0_for_inter", elemap)
        mag_pnorm_lhs == get_mag_pnorm_mat(lhs, elemap)
        norm_pnorm_lhs == get_norm_pnorm_mat(lhs, elemap)
    IN  IF ~scal0_lhs.ok THEN scal0_lhs
        ELSE IF ~mag_pnorm_lhs.ok THEN mag_pnorm_lhs
        ELSE IF ~norm_pnorm_lhs.ok THEN norm_pnorm_lhs
        ELSE Ok([self0 EXCEPT !.f = [a \in MPIAttrs |->
                CASE a = "_scal0_lhs" ->
                        be_mpi_view(n + 1, scal0_lhs.val, self0.n["nvars"],
                                    NoPad)
                  [] a = "_scal0_rhs" ->
                        be_mpi_matrix_for_view(n + 2,
                            be_mpi_view(n + 1, scal0_lhs.val,
                                        self0.n["nvars"], NoPad))
                  [] a = "_mag_pnorm_lhs" ->
                        be_const_matrix(mag_pnorm_lhs.val, NoPad)
                  [] a = "_norm_pnorm_lhs" ->
                        be_const_matrix(norm_pnorm_lhs.val, NoPad)]])

\* NavierStokesInternalInterfaces.__init__
NavierStokesInternalInterfaces_init(cls, lhs, rhs, elemap) ==
    LET base == BaseInternalInterfaces_init(cls, lhs, rhs, elemap)
        scal1_lhs == get_view_mats(lhs, "get_scal_fpts1_for_inter", elemap)
        scal1_rhs == get_view_mats(rhs, "get_scal_fpts1_for_inter", elemap)
    IN  IF ~base.ok THEN base
        ELSE IF ~scal1_lhs.ok THEN scal1_lhs
        ELSE IF ~scal1_rhs.ok THEN scal1_rhs
        ELSE LET s1 == SetAttr(base.val, "_scal1_lhs",
                          be_view(scal1_lhs.val, base.val.n["nvars"], NoPad))
                 s2 == SetAttr(s1, "_scal1_rhs",
                          be_view(scal1_rhs.val, base.val.n["nvars"], NoPad))
             IN  Ok(s2)

\* NavierStokesMPIInterfaces.__init__
NavierStokesMPIInterfaces_init(cls, n, lhs, rhsrank, elemap) ==
    LET base == BaseMPIInterfaces_init(cls, n, lhs, rhsrank, elemap)
        scal1_lhs == get_view_mats(lhs, "get_scal_fpts1_for_inter", elemap)
    IN  IF ~base.ok THEN base
        ELSE IF ~scal1_lhs.ok THEN scal1_lhs
        ELSE Ok(SetAttr(base.val, "_scal1_lhs",
                        be_mpi_view(n + 3, scal1_lhs.val,
                                    base.val.n["nvars"], NoPad)))

\* The mutable buffers an instance of cls allocates on the backend.
NBuffers(cls) ==
    CASE cls = "EulerMPIInterfaces" -> 2
      [] cls = "NavierStokesMPIInterfaces" -> 3
      [] OTHER -> 0

\* cls(be, lhs, rhs, elemap, cfg) for an internal class: instantiating a class
\* with abstract methods left raises TypeError before __init__ runs.
NewInternal(cls, lhs, rhs, elemap) ==
    IF AbstractMethods(cls) # {} THEN Err("TypeError")
    ELSE IF cls = "NavierStokesInternalInterfaces"
         THEN NavierStokesInternalInterfaces_init(cls, lhs, rhs, elemap)
         ELSE BaseInternalInterfaces_init(cls, lhs, rhs, elemap)

\* cls(be, lhs, rhsrank, elemap, cfg) for an MPI class.
NewMPI(cls, n, lhs, rhsrank, elemap) ==
    IF AbstractMethods(cls) # {} THEN Err("TypeError")
    ELSE IF cls = "NavierStokesMPIInterfaces"
         THEN NavierStokesMPIInterfaces_init(cls, n, lhs, rhsrank, elemap)
         ELSE BaseMPIInterfaces_init(cls, n, lhs, rhsrank, elemap)

(***************************************************************************)
(* Kernel getters                                                          *)
(***************************************************************************)
MPI_TAG == 2314

get_scal_fpts0_pack_kern(self) ==
    Ok(be_kernel("pack", <<>>, <<self.f["_scal0_lhs"]>>, <<>>))

\* Faulty variant of get_scal_fpts0_send_pack_kern: the kernel is built over the
\* receive matrix instead of the packed lhs view.
get_scal_fpts0_send_pack_kern_OverRhs(self) ==
    Ok(be_kernel("send_pack", <<>>, <<self.f["_scal0_rhs"]>>,
                 <<self.n["_rhsrank"], MPI_TAG>>))

get_scal_fpts0_send_pack_kern(self) ==
    Ok(be_kernel("send_pack", <<>>, <<self.f["_scal0_lhs"]>>,
                 <<self.n["_rhsrank"], MPI_TAG>>))

\* Faulty variant of get_scal_fpts0_recv_pack_kern: another tag than send_pack's.
get_scal_fpts0_recv_pack_kern_OtherTag(self) ==
    Ok(be_kernel("recv_pack", <<>>, <<self.f["_scal0_rhs"]>>,
                 <<self.n["_rhsrank"], MPI_TAG + 1>>))

get_scal_fpts0_recv_pack_kern(self) ==
    Ok(be_kernel("recv_pack", <<>>, <<self.f["_scal0_rhs"]>>,
                 <<self.n["_rhsrank"], MPI_TAG>>))

get_scal_fpts0_unpack_kern(self) ==
    Ok(be_kernel("unpack", <<>>, <<self.f["_scal0_rhs"]>>, <<>>))

\* Faulty variant of EulerInternalInterfaces.get_rsolve_kern: gamma is a value fixed
\* before the call and the configuration is not read again.
EulerInternalInterfaces_get_rsolve_kern_FixedGamma(self, c) ==
    LET gamma == 140
    IN  Ok(be_kernel("rsolve_rus_inv_int",
                     <<self.n["ndims"], self.n["nvars"]>>,
                     <<self.f["_scal0_lhs"], self.f["_scal0_rhs"],
                       self.f["_mag_pnorm_lhs"], self.f["_mag_pnorm_rhs"],
                       self.f["_norm_pnorm_lhs"]>>,
                     <<gamma>>))

\* EulerInternalInterfaces.get_rsolve_kern: gamma is read from cfg here.
EulerInternalInterfaces_get_rsolve_kern(self, c) ==
    LET gamma == cfg_getfloat(c)
    IN  Ok(be_kernel("rsolve_rus_inv_int",
                     <<self.n["ndims"], self.n["nvars"]>>,
                     <<self.f["_scal0_lhs"], self.f["_scal0_rhs"],
                       self.f["_mag_pnorm_lhs"], self.f["_mag_pnorm_rhs"],
                       self.f["_norm_pnorm_lhs"]>>,
                     <<gamma>>))

\* EulerMPIInterfaces.get_rsolve_kern
EulerMPIInterfaces_get_rsolve_kern(self, c) ==
    LET gamma == ParseFloat(cfg_get(c))
    IN  Ok(be_kernel("rsolve_rus_inv_mpi",
                     <<self.n["ndims"], self.n["nvars"]>>,
                     <<self.f["_scal0_lhs"], self.f["_scal0_rhs"],
                       self.f["_mag_pnorm_lhs"], self.f["_norm_pnorm_lhs"]>>,
                     <<gamma>>))

\* NavierStokesInternalInterfaces.get_conu_fpts_kern: reads self._beta.
NavierStokesInternalInterfaces_get_conu_fpts_kern(self) ==
    IF "_beta" \notin DOMAIN self.n THEN Err("AttributeError")
    ELSE Ok(be_kernel("conu_int", <<self.n["ndims"], self.n["nvars"]>>,
                      <<self.f["_scal0_lhs"], self.f["_scal0_rhs"],
                        self.f["_scal1_lhs"], self.f["_scal1_rhs"]>>,
                      <<self.n["_beta"]>>))

\* NavierStokesMPIInterfaces.get_conu_fpts_kern: no scalar parameter.
NavierStokesMPIInterfaces_get_conu_fpts_kern(self) ==
    Ok(be_kernel("conu_mpi", <<self.n["ndims"], self.n["nvars"]>>,
                 <<self.f["_scal0_lhs"], self.f["_scal0_rhs"],
                   self.f["_scal1_lhs"]>>,
                 <<>>))

\* self.<g>() on an instance: attribute lookup along the MRO, then the call.
CallMethod(self, g, c) ==
    LET d == Resolve(self.cls, g)
    IN  CASE d = "none" -> Err("AttributeError")
          [] d = "BaseInterfaces" -> Err("NotImplemented")
          [] d = "EulerInternalInterfaces" ->
                EulerInternalInterfaces_get_rsolve_kern(self, c)
          [] d = "EulerMPIInterfaces" ->
                EulerMPIInterfaces_get_rsolve_kern(self, c)
          [] d = "NavierStokesInternalInterfaces" ->
                NavierStokesInternalInterfaces_get_conu_fpts_kern(self)
          [] d = "NavierStokesMPIInterfaces" ->
                NavierStokesMPIInterfaces_get_conu_fpts_kern(self)
          [] d = "BaseMPIInterfaces" ->
                CASE g = "get_scal_fpts0_pack_kern" ->
                        get_scal_fpts0_pack_kern(self)
                  [] g = "get_scal_fpts0_send_pack_kern" ->
                        get_scal_fpts0_send_pack_kern(self)
                  [] g = "get_scal_fpts0_recv_pack_kern" ->
                        get_scal_fpts0_recv_pack_kern(self)
                  [] g = "get_scal_fpts0_unpack_kern" ->
                        get_scal_fpts0_unpack_kern(self)

(***************************************************************************)
(* Specification SpecAsm: one call of an assembler or of an internal       *)
(* constructor per run, on every side list and element map within the      *)
(* bounds                                                                  *)
(***************************************************************************)
NoCall == [op |-> "none"]
Empty == <<>>

ExchangeIdle ==
    /\ pc = Empty /\ rnd = Empty /\ packbuf = Empty /\ hbuf = Empty
    /\ dbuf = Empty /\ chan = Empty /\ log = Empty /\ used = Empty

ExchangeUnchanged == UNCHANGED <<pc, rnd, packbuf, hbuf, dbuf, chan, log, used>>

ViewMatNames == {"get_scal_fpts0_for_inter", "get_scal_fpts1_for_inter"}

InitAsm ==
    /\ last = NoCall /\ cfg = "1.4" /\ objs = <<>> /\ nalloc = 0
    /\ memo = NoCall /\ ExchangeIdle

CallGetViewMats ==
    /\ last = NoCall
    /\ \E interside \in SideLists, mat \in ViewMatNames, elemap \in Elemaps :
        /\ last' = [op |-> "get_view_mats", interside |-> interside,
                    mat |-> mat, elemap |-> elemap,
                    res |-> get_view_mats(interside, mat, elemap)]
        /\ UNCHANGED <<cfg, objs, nalloc, memo>> /\ ExchangeUnchanged

CallGetMagPnormMat ==
    /\ last = NoCall
    /\ \E interside \in SideLists, elemap \in Elemaps :
        /\ last' = [op |-> "get_mag_pnorm_mat", interside |-> interside,
                    elemap |-> elemap,
                    res |-> get_mag_pnorm_mat(interside, elemap)]
        /\ UNCHANGED <<cfg, objs, nalloc, memo>> /\ ExchangeUnchanged

CallGetNormPnormMat ==
    /\ last = NoCall
    /\ \E interside \in SideLists, elemap \in Elemaps :
        /\ last' = [op |-> "get_norm_pnorm_mat", interside |-> interside,
                    elemap |-> elemap,
                    res |-> get_norm_pnorm_mat(interside, elemap)]
        /\ UNCHANGED <<cfg, objs, nalloc, memo>> /\ ExchangeUnchanged

ConstructInternal ==
    /\ last = NoCall
    /\ \E cls \in InternalClasses, lhs \in SideLists, rhs \in SideLists,
       elemap \in Elemaps :
        /\ last' = [op |-> "construct", cls |-> cls, lhs |-> lhs,
                    rhs |-> rhs, elemap |-> elemap,
                    res |-> NewInternal(cls, lhs, rhs, elemap)]
        /\ UNCHANGED <<cfg, objs, nalloc, memo>> /\ ExchangeUnchanged

NextAsm ==
    \/ CallGetViewMats
    \/ CallGetMagPnormMat
    \/ CallGetNormPnormMat
    \/ ConstructInternal

SpecAsm == InitAsm /\ [][NextAsm]_vars

(***************************************************************************)
(* Properties of the assemblers and of internal construction (SpecAsm)     *)
(***************************************************************************)
RECURSIVE SumPts(_)
SumPts(sides) ==
    IF sides = <<>> THEN 0
    ELSE NFpts(Head(sides)[1], Head(sides)[3]) + SumPts(Tail(sides))

\* Number of points of the sides before side i.
Offset(sides, i) == SumPts(SubSeq(sides, 1, i - 1))

\* The flat positions that belong to side i of a side list.
Range(sides, i) == (Offset(sides, i) + 1)..Offset(sides, i + 1)

\* Fragment k (0-based) of side i, as the accessor of its type returns it.
FragOf(sides, i, mat, k) ==
    ScalFptsForInter(mat, sides[i][1], sides[i][2], sides[i][3],
                     sides[i][4])[k + 1]

\* Every type of the side list is a key of elemap.
TypesKnown(sides, elemap) ==
    \A i \in 1..Len(sides) : sides[i][1] \in DOMAIN elemap

\* lhs[i] / rhs[i] are paired: as many sides, as many points side by side.
Paired(lhs, rhs) ==
    /\ Len(lhs) = Len(rhs)
    /\ \A i \in 1..Len(lhs) :
          NFpts(lhs[i][1], lhs[i][3]) = NFpts(rhs[i][1], rhs[i][3])

\* C10: for a non-empty side list, array k returned by get_view_mats is one
\* row holding fragment k of side 1, then of side 2, ...: its length is the
\* sum of the per-side point counts and side j's points precede side j+1's.
C10_ViewMatsConcatenateInOrder ==
    (last.op = "get_view_mats" /\ last.interside # <<>> /\ last.res.ok) =>
        /\ Len(last.res.val) = 3
        /\ \A k \in 0..2 :
            LET arr == last.res.val[k + 1]
            IN  /\ Len(arr) = 1
                /\ Len(arr[1]) = SumPts(last.interside)
                /\ \A i \in 1..Len(last.interside) :
                     \A p \in Range(last.interside, i) :
                        arr[1][p] = FragOf(last.interside, i, last.mat, k)
                                        [p - Offset(last.interside, i)]

C10_Witness ==
    /\ last.op = "get_view_mats" /\ last.res.ok
    /\ Len(last.interside) = 2
    /\ last.interside[1][1] # last.interside[2][1]
    /\ NFpts(last.interside[1][1], last.interside[1][3]) = 1
    /\ Len(last.res.val[3][1]) = 3

\* The five arrays of an internal interface set, as flat rows.
FlatRows(self) ==
    << self.f["_scal0_lhs"].mats[1][1], self.f["_scal0_rhs"].mats[1][1],
       self.f["_mag_pnorm_lhs"].data[1], self.f["_mag_pnorm_rhs"].data[1],
       self.f["_norm_pnorm_lhs"].data[1] >>

\* The side list each of the five arrays is built from.
RowSides(lhs, rhs) == <<lhs, rhs, lhs, rhs, lhs>>

SideOfEntry(e) == <<e.type, e.eidx, e.face>>

\* C3: in an internal interface set built from paired sides, the lhs view,
\* the rhs view, both normal-magnitude arrays and the lhs unit-normal array
\* have the same flat length, and position p of each of them holds a point
\* of the same interface i, the points of interface i filling the same
\* position range in every array.
C3_ArraysAligned ==
    (last.op = "construct" /\ last.res.ok /\ Paired(last.lhs, last.rhs)) =>
        LET rows == FlatRows(last.res.val)
            from == RowSides(last.lhs, last.rhs)
        IN  /\ \A a \in 1..5 : Len(rows[a]) = SumPts(last.lhs)
            /\ \A i \in 1..Len(last.lhs) :
                 \A p \in Range(last.lhs, i) :
                    \A a \in 1..5 :
                       /\ SideOfEntry(rows[a][p]) =
                              <<from[a][i][1], from[a][i][2], from[a][i][3]>>
                       /\ rows[a][p].pt =
                              PtAt(NFpts(from[a][i][1], from[a][i][3]),
                                   from[a][i][4], p - Offset(last.lhs, i))

C3_Witness ==
    /\ last.op = "construct" /\ last.res.ok /\ Paired(last.lhs, last.rhs)
    /\ Len(last.lhs) = 2
    /\ last.rhs = Partners(last.lhs)
    /\ SumPts(last.lhs) = 3

\* C4: constructing an internal interface set from side lists of different
\* lengths, or whose paired sides have different point counts, fails (with
\* ShapeMismatch), so every set that exists has len(lhs) = len(rhs).
C4_MismatchRejected ==
    last.op = "construct" =>
        /\ ~Paired(last.lhs, last.rhs) => ~last.res.ok
        /\ last.res.ok => Len(last.lhs) = Len(last.rhs)

\* C5 as stated: get_view_mats succeeds on a non-empty side list whenever
\* every element type that appears in a side has the accessor, whatever the
\* other types of elemap have.
C5_SucceedsIfReferencedTypesHaveAccessor ==
    (/\ last.op = "get_view_mats" /\ last.interside # <<>>
     /\ \A i \in 1..Len(last.interside) :
           /\ last.interside[i][1] \in DOMAIN last.elemap
           /\ last.mat \in last.elemap[last.interside[i][1]].attrs)
        => last.res.ok

\* C5 amended: get_view_mats fails with UnsupportedElementType exactly when
\* some element type of elemap lacks the accessor, referenced by a side or
\* not; when every type of elemap has it, a non-empty side list whose types
\* are all in elemap succeeds.
C5_FailsIffAnyTypeLacksAccessor ==
    last.op = "get_view_mats" =>
        /\ (\E t \in DOMAIN last.elemap : last.mat \notin last.elemap[t].attrs)
              <=> (~last.res.ok /\ last.res.err = UnsupportedElementType)
        /\ (/\ \A t \in DOMAIN last.elemap : last.mat \in last.elemap[t].attrs
            /\ last.interside # <<>>
            /\ TypesKnown(last.interside, last.elemap))
              => last.res.ok

C5_Witness ==
    /\ last.op = "get_view_mats" /\ last.interside # <<>>
    /\ \A i \in 1..Len(last.interside) :
          /\ last.interside[i][1] \in DOMAIN last.elemap
          /\ last.mat \in last.elemap[last.interside[i][1]].attrs
    /\ \E t \in DOMAIN last.elemap : last.mat \notin last.elemap[t].attrs
    /\ ~last.res.ok /\ last.res.err = UnsupportedElementType

(***************************************************************************)
(* Specification SpecKern: construction of the four equation adapters from *)
(* valid inputs, calls of their kernel getters, and changes of the         *)
(* configuration between calls                                             *)
(***************************************************************************)
\* Valid inputs: side lists of the mesh, whose rhs is the list of partners.
KernLhs == { << <<"hex", 0, 0, 0>> >>,
             << <<"pri", 0, 0, 0>>, <<"hex", 0, 0, 0>> >> }
KernRanks == {1}

InitKern ==
    /\ last = NoCall /\ cfg \in GammaTexts /\ objs = <<>> /\ nalloc = 0
    /\ memo = NoCall /\ ExchangeIdle

\* cls(be, lhs, rhs | rhsrank, elemap, cfg) on valid inputs.
Construct ==
    /\ Len(objs) < MaxObjs
    /\ \E cls \in Classes, lhs \in KernLhs, rhsrank \in KernRanks :
        LET r == IF cls \in InternalClasses
                 THEN NewInternal(cls, lhs, Partners(lhs), FullElemap)
                 ELSE NewMPI(cls, nalloc, lhs, rhsrank, FullElemap)
        IN  /\ last' = [op |-> "construct", cls |-> cls, ok |-> r.ok,
                        err |-> r.err]
            /\ objs' = IF r.ok THEN Append(objs, r.val) ELSE objs
            /\ nalloc' = IF r.ok THEN nalloc + NBuffers(cls) ELSE nalloc
            /\ UNCHANGED <<cfg, memo>> /\ ExchangeUnchanged

\* objs[i].<g>(): the getters assign nothing.  memo may keep this call so
\* that a later call of the same getter can be compared with it.
CallGetter ==
    \E i \in 1..Len(objs), g \in Getters, keep \in BOOLEAN :
        LET call == [op |-> "call", obj |-> i, getter |-> g, gamma |-> cfg,
                     res |-> CallMethod(objs[i], g, cfg)]
        IN  /\ last' = call
            /\ memo' = IF keep THEN memo ELSE call
            /\ UNCHANGED <<cfg, objs, nalloc>> /\ ExchangeUnchanged

\* The configuration value constants.gamma is set to another text.
SetCfg ==
    \E text \in GammaTexts \ {cfg} :
        /\ cfg' = text
        /\ UNCHANGED <<last, objs, nalloc, memo>> /\ ExchangeUnchanged

NextKern ==
    \/ Construct
    \/ CallGetter
    \/ SetCfg

SpecKern == InitKern /\ [][NextKern]_vars

(***************************************************************************)
(* Properties of the kernel getters (SpecKern)                             *)
(***************************************************************************)
\* last and memo are two calls of the same getter of the same interface set.
SameGetterTwice ==
    /\ last.op = "call" /\ memo.op = "call"
    /\ last.obj = memo.obj /\ last.getter = memo.getter

IsCallStep == last'.op = "call" /\ last' # last

Newest == objs[Len(objs)]

\* C9: each of the four adapters can be constructed from valid inputs and
\* its get_rsolve_kern returns a descriptor with the operation name, the
\* lhs/rhs state operands, the normal arrays and the scalar parameters.
C9_EveryAdapterConstructible ==
    last.op = "construct" =>
        /\ last.ok
        /\ AbstractMethods(last.cls) = {}
        /\ LET r == CallMethod(Newest, "get_rsolve_kern", cfg)
           IN  /\ r.ok
               /\ r.val.name \in {"rsolve_rus_inv_int", "rsolve_rus_inv_mpi"}
               /\ r.val.operands[1] = Newest.f["_scal0_lhs"]
               /\ r.val.operands[2] = Newest.f["_scal0_rhs"]
               /\ Len(r.val.operands) >= 4
               /\ Len(r.val.scalars) >= 1

\* C7: a Navier-Stokes interface set, internal or distributed, constructed
\* from valid inputs returns from get_conu_fpts_kern a descriptor over the
\* primary and auxiliary views with the interior-penalty constant as its
\* scalar parameter; the call does not fail for want of the constant.
C7_ConuKernelHasPenaltyConstant ==
    (last.op = "construct" /\ last.cls \in NSClasses) =>
        /\ last.ok
        /\ LET r == CallMethod(Newest, "get_conu_fpts_kern", cfg)
           IN  /\ r.ok
               /\ r.val.operands[1] = Newest.f["_scal0_lhs"]
               /\ \E k \in 1..Len(r.val.operands) :
                     r.val.operands[k] = Newest.f["_scal1_lhs"]
               /\ Len(r.val.scalars) = 1

(***************************************************************************)
(* Specification SpecExch: four distributed interface sets on three ranks  *)
(* run exchange rounds.  Rank 0 owns two sets, to ranks 1 and 2; ranks 1   *)
(* and 2 each own the set back to rank 0.  Each set's round is pack,       *)
(* send_pack, recv_pack, unpack, then the Riemann kernel; the sets         *)
(* interleave freely and may be in different rounds.  Every step runs the  *)
(* kernel descriptor that the set's getter returns.                        *)
(***************************************************************************)
SetIds == 1..4

\* The rank that owns each set, the rank it exchanges with, its peer set.
RankOf == <<0, 0, 1, 2>>
RhsRankOf == <<1, 2, 0, 0>>
PeerOf == <<3, 4, 1, 2>>

\* Side lists of an inter-rank boundary, as the lower rank sees them.
ExchLhs == { << <<"hex", 0, 0, 0>> >>,
             << <<"pri", 0, 0, 0>>, <<"hex", 0, 0, 0>> >> }

\* The sets of one run: lists l1 and l2 on rank 0, their partners opposite.
\* Each rank has its own backend, which numbers its buffers from 1.
ExchObjs(l1, l2) ==
    [s \in SetIds |->
        NewMPI("EulerMPIInterfaces",
               IF s = 2 THEN NBuffers("EulerMPIInterfaces") ELSE 0,
               CASE s = 1 -> l1
                 [] s = 2 -> l2
                 [] s = 3 -> Partners(l1)
                 [] s = 4 -> Partners(l2),
               RhsRankOf[s], FullElemap).val]

LhsView(s) == objs[s].f["_scal0_lhs"]
RhsMat(s) == objs[s].f["_scal0_rhs"]

\* A buffer of the backend of a rank.
Buf(rank, operand) == <<rank, operand.id>>

\* The state the lhs view of a set addresses, in round r.
ViewData(rank, view, r) ==
    [p \in 1..ViewLen(view) |->
        [rank |-> rank, round |-> r, type |-> view.mats[1][1][p].type,
         eidx |-> view.mats[1][1][p].eidx, face |-> view.mats[1][1][p].face,
         pt |-> view.mats[1][1][p].pt]]

Channels == { <<a, b, t>> : a \in 0..2, b \in 0..2, t \in {MPI_TAG, MPI_TAG + 1} }

InitExch ==
    /\ last = NoCall /\ cfg = "1.4" /\ memo = NoCall
    /\ \E l1 \in ExchLhs, l2 \in ExchLhs : objs = ExchObjs(l1, l2)
    /\ nalloc = 2 * NBuffers("EulerMPIInterfaces")
    /\ pc = [s \in SetIds |-> "pack"]
    /\ rnd = [s \in SetIds |-> 1]
    /\ packbuf = [b \in { Buf(RankOf[s], LhsView(s)) : s \in SetIds } |-> <<>>]
    /\ hbuf = [b \in { Buf(RankOf[s], RhsMat(s)) : s \in SetIds } |-> <<>>]
    /\ dbuf = [b \in { Buf(RankOf[s], RhsMat(s)) : s \in SetIds } |-> <<>>]
    /\ chan = [c \in Channels |-> <<>>]
    /\ log = [s \in SetIds |-> <<>>]
    /\ used = [s \in SetIds |-> [round |-> 0, rhs |-> <<>>]]

\* The contents of the host buffer behind a kernel operand.
HostBuf(rank, operand) ==
    IF operand.kind = "mpi_view" THEN packbuf[Buf(rank, operand)]
    ELSE hbuf[Buf(rank, operand)]

\* Whether the backend can run kernel d on a rank now: a receive completes
\* only when a message from the named rank with the named tag has arrived
\* and fits the buffer.
CanRun(rank, d) ==
    d.name = "recv_pack" =>
        /\ chan[<<d.scalars[1], rank, d.scalars[2]>>] # <<>>
        /\ Len(Head(chan[<<d.scalars[1], rank, d.scalars[2]>>]))
              = Len(d.operands[1].data)

\* The buffers and channels after the backend has run kernel d for a set in
\* round r on a rank.
Exec(rank, r, d) ==
    LET now == [packbuf |-> packbuf, hbuf |-> hbuf, dbuf |-> dbuf,
                chan |-> chan]
    IN  CASE d.name = "pack" ->
                [now EXCEPT !.packbuf[Buf(rank, d.operands[1])] =
                                ViewData(rank, d.operands[1], r)]
          [] d.name = "send_pack" ->
                [now EXCEPT !.chan[<<rank, d.scalars[1], d.scalars[2]>>] =
                                Append(@, HostBuf(rank, d.operands[1]))]
          [] d.name = "recv_pack" ->
                [now EXCEPT !.hbuf[Buf(rank, d.operands[1])] =
                                Head(chan[<<d.scalars[1], rank, d.scalars[2]>>]),
                            !.chan[<<d.scalars[1], rank, d.scalars[2]>>] =
                                Tail(@)]
          [] d.name = "unpack" ->
                [now EXCEPT !.dbuf[Buf(rank, d.operands[1])] =
                                hbuf[Buf(rank, d.operands[1])]]
          [] OTHER -> now

\* What kernel d read from its buffers (kept in the log of the round).
ReadBy(rank, d) ==
    CASE d.name = "send_pack" -> HostBuf(rank, d.operands[1])
      [] d.name = "unpack" -> hbuf[Buf(rank, d.operands[1])]
      [] OTHER -> <<>>

\* One step of the round of set s: run the kernel that getter g returns.
RunStep(s, g, next) ==
    LET d == CallMethod(objs[s], g, cfg).val
        after == Exec(RankOf[s], rnd[s], d)
    IN  /\ CanRun(RankOf[s], d)
        /\ packbuf' = after.packbuf
        /\ hbuf' = after.hbuf
        /\ dbuf' = after.dbuf
        /\ chan' = after.chan
        /\ log' = [log EXCEPT ![s] =
                      Append(@, [kern |-> d.name, read |-> ReadBy(RankOf[s], d)])]
        /\ pc' = [pc EXCEPT ![s] = next]
        /\ UNCHANGED <<last, cfg, objs, nalloc, memo, rnd, used>>

Pack(s) ==
    /\ pc[s] = "pack"
    /\ RunStep(s, "get_scal_fpts0_pack_kern", "send_pack")

SendPack(s) ==
    /\ pc[s] = "send_pack"
    /\ RunStep(s, "get_scal_fpts0_send_pack_kern", "recv_pack")

RecvPack(s) ==
    /\ pc[s] = "recv_pack"
    /\ RunStep(s, "get_scal_fpts0_recv_pack_kern", "unpack")

Unpack(s) ==
    /\ pc[s] = "unpack"
    /\ RunStep(s, "get_scal_fpts0_unpack_kern", "rsolve")

\* The Riemann kernel of the round reads the rhs operand; the next round
\* of the set starts after it.
RSolve(s) ==
    /\ pc[s] = "rsolve"
    /\ LET d == CallMethod(objs[s], "get_rsolve_kern", cfg).val
       IN  used' = [used EXCEPT ![s] =
                       [round |-> rnd[s],
                        rhs |-> dbuf[Buf(RankOf[s], d.operands[2])]]]
    /\ pc' = [pc EXCEPT ![s] = IF rnd[s] < MaxRound THEN "pack" ELSE "done"]
    /\ rnd' = [rnd EXCEPT ![s] = IF rnd[s] < MaxRound THEN @ + 1 ELSE @]
    /\ log' = [log EXCEPT ![s] = <<>>]
    /\ UNCHANGED <<last, cfg, objs, nalloc, memo, packbuf, hbuf, dbuf, chan>>

NextExch ==
    \E s \in SetIds :
        \/ Pack(s)
        \/ SendPack(s)
        \/ RecvPack(s)
        \/ Unpack(s)
        \/ RSolve(s)

SpecExch == InitExch /\ [][NextExch]_vars

(***************************************************************************)
(* Properties of the exchange (SpecExch)                                   *)
(***************************************************************************)
RoundOrder == <<"pack", "send_pack", "recv_pack", "unpack">>

\* What the peer of set s packs in round r.
PeerData(s, r) == ViewData(RankOf[PeerOf[s]], LhsView(PeerOf[s]), r)

C2_RhsBufferEqualsPeerPack ==
    \A s \in SetIds :
        LET sd == CallMethod(objs[s], "get_scal_fpts0_send_pack_kern", cfg).val
            rd == CallMethod(objs[s], "get_scal_fpts0_recv_pack_kern", cfg).val
        IN  /\ sd.scalars = <<RankOf[PeerOf[s]], 2314>>
            /\ rd.scalars = sd.scalars
            /\ objs[PeerOf[s]].n["_rhsrank"] = RankOf[s]
            /\ Len(RhsMat(s).data) = ViewLen(LhsView(s))
            /\ pc[s] = "rsolve" =>
                  /\ dbuf[Buf(RankOf[s], RhsMat(s))] = PeerData(s, rnd[s])
                  /\ Len(dbuf[Buf(RankOf[s], RhsMat(s))]) = ViewLen(LhsView(s))

C2_Witness ==
    /\ pc[1] = "rsolve" /\ rnd[1] = 2
    /\ Len(dbuf[Buf(RankOf[1], RhsMat(1))]) = 3
    /\ dbuf[Buf(RankOf[1], RhsMat(1))][1].eidx
          # dbuf[Buf(RankOf[1], RhsMat(1))][3].eidx
    /\ pc[2] = "pack" /\ rnd[2] = 1

\* The ids of the mutable buffers among the operands of a descriptor.
BufferIds(d) ==
    { d.operands[k].id : k \in { j \in 1..Len(d.operands) :
                                    d.operands[j].id # 0 } }

\* The ids of the mutable buffers any kernel of set s refers to.
KernelBufferIds(s) ==
    UNION { BufferIds(CallMethod(objs[s], g, cfg).val) :
              g \in { h \in Getters : CallMethod(objs[s], h, cfg).ok } }

\* A step in which set s runs its recv_pack kernel.
RecvStep(s) == pc[s] = "recv_pack" /\ pc'[s] = "unpack"

====
